---- MODULE Spec2Model ----
(***************************************************************************)
(* Model of the accelerator inference scheduler of cell-segmentation-hub.   *)
(*                                                                          *)
(*  Spec       InferenceExecutor (ml/inference_executor.py): sessions, the  *)
(*             thread pool, the caller-side wait with its deadline, and     *)
(*             the workers that run the model callable.                     *)
(*  BatchSpec  ProductionInferenceService (services/production_inference.py)*)
(*             with one DynamicBatchQueue per model, infer, and the         *)
(*             background loop that drains and processes batches.           *)
(*                                                                          *)
(* Time is a discrete clock `now`.  A caller that can take a step (its      *)
(* future is done, its deadline has passed, or it is unwinding) does so     *)
(* before the clock advances: scheduling overhead is taken as zero.         *)
(* Workers, new calls and the batch loop are not urgent.                    *)
(***************************************************************************)
EXTENDS Integers, Sequences, FiniteSets, TLC

(* ------------------------------ bounds --------------------------------- *)
NumThreads == 2
MaxCalls == 2
MaxTime == 3

(* constructor parameters of the executor under test *)
max_workers == 1
default_timeout == 2
memory_limit_bytes == 1
MaxShutdowns == 2
shutdown_timeout == 1
MaxInstances == 3
MaxCleanups == 2
MaxHanded == 3
MaxCancels == 3
MaxStreams == 2
MaxStreamCalls == 3

(* program constants, in percent of device memory *)
memory_pressure_threshold == 90
emergency_cleanup_threshold == 95

enable_monitoring == TRUE
enable_cuda_streams == TRUE
cuda_available == TRUE

Threads == 1..NumThreads
Calls == 1..MaxCalls
(* the timeout argument; 0 stands for None, which selects default_timeout *)
TimeoutArgs == {0, 1}
MemorySamples == {memory_limit_bytes, memory_limit_bytes + 1}
Utilizations == {memory_pressure_threshold, emergency_cleanup_threshold,
                 emergency_cleanup_threshold + 1}
Behaviours == {"return", "out of memory", "raise"}

Terminal == {"completed", "failed", "timeout", "cancelled"}

(* the batching service under test, times in milliseconds *)
MaxReqs == 4
BatchMaxTime == 2
max_batch_size == 2
max_queue_size == 3
max_queue_delay_ms == 2
infer_timeout_ms == 2
MaxDuration == 3
LoopMaxTime == 3

Requests == 1..MaxReqs
Models == {"hrnet", "cbam_resunet"}
(* every request is submitted with the default threshold *)
Thresholds == {1}
MixedThresholds == {1, 2}
Durations == 0..MaxDuration

(* bounds of the GPU monitor and of predict_batch *)
MaxBatchMetrics == 6
history_size == 3
MaxImages == 4
optimal_batch_size == 2
max_safe_batch_size == 4

(* GPUMonitor.should_reduce_batch_size *)
default_threshold == 85
recent_window == 5
failure_limit == 2
NoReading == -1
gpu_monitor_available == TRUE

MemoryReadings == {NoReading, default_threshold, default_threshold + 1}
ReduceThresholds == {default_threshold}
BatchSizeArgs == 0..(max_safe_batch_size + 1)
ExecOutcomes == {"return", "InferenceTimeoutError", "InferenceError"}

VARIABLES
    now,               \* time.time()
    pc,                \* per call: "new", "waiting", "exiting", "done"
    caller,            \* per call: the calling thread
    deadline,          \* per call: when future.result(timeout) gives up
    session,           \* per call: its InferenceSession object
    sessions,          \* InferenceExecutor._sessions: session_id -> call
    future,            \* per call: state of the pool's future
    work_queue,        \* ThreadPoolExecutor work queue
    stream_index,      \* InferenceExecutor.stream_index
    stream,            \* per call: the CUDA stream it was given
    total_inferences,
    timeout_count,
    failure_count,
    cleanups,          \* per call: emergency cleanups and cache releases
    exc,               \* per call: exception propagating out of the wait
    outcome,           \* per call: what execute_inference gave its caller
    releasedAt,        \* per call: when its caller was released
    executor_shutdown, \* ThreadPoolExecutor._shutdown of self.executor
    sd,                \* the shutdown call in progress and those that returned
    called_shut,       \* per call: the pool was shut down when it was made
    preflight          \* per call: what its checks sampled before the submit

shutdownVars == <<executor_shutdown, sd, called_shut>>

(* module-level state of inference_executor.py *)
VARIABLES
    global_executor,   \* _global_executor: 0 for None, else the instance
    executor_lock,     \* _executor_lock: 0 when free, else the holding thread
    constructed,       \* InferenceExecutor instances constructed so far
    shut_down,         \* the instances shutdown() was called on
    cleanups_run,      \* cleanup_global_executor calls that have run
    gpc,               \* per thread: its place in get/cleanup_global_executor
    handed_out             \* what get_global_executor returned, in order

globalVars == <<global_executor, executor_lock, constructed, shut_down,
                cleanups_run, gpc, handed_out>>

(* module-level state of api/cancel.py *)
VARIABLES
    active_jobs,       \* active_jobs: job_id -> the job's record
    background_tasks,  \* cleanup_gpu_resources tasks scheduled so far
    responses          \* what cancel_segmentation answered, in order

cancelVars == <<active_jobs, background_tasks, responses>>

(* the calling threads of one executor, statement by statement *)
VARIABLES
    cuda_streams,      \* len(self.cuda_streams)
    stream_lock,       \* _stream_lock: 0 when free, else the holding thread
    tpc,               \* per thread: its place in execute_inference
    bound_stream,      \* per thread: the stream its call was given
    loaded,            \* per thread: the counter value its += has read
    given,             \* what get_next_cuda_stream returned, in order
    returned_ok        \* execute_inference calls that returned a result

threadVars == <<cuda_streams, stream_lock, tpc, bound_stream, loaded, given,
                returned_ok>>
moduleVars == <<globalVars, cancelVars, threadVars>>
execRest == <<pc, caller, deadline, session, sessions, future,
              work_queue, stream_index, stream, total_inferences,
              timeout_count, failure_count, cleanups, exc, outcome,
              releasedAt, shutdownVars, preflight, moduleVars>>
execVars == <<now, execRest>>
execVars_but_module == <<now, pc, caller, deadline, session, sessions, future,
                         work_queue, stream_index, stream, total_inferences,
                         timeout_count, failure_count, cleanups, exc, outcome,
                         releasedAt, shutdownVars, preflight>>

(* state of the ProductionInferenceService *)
VARIABLES
    requests,          \* per request: the InferenceRequest and its caller
    queue,             \* per model: DynamicBatchQueue.queue
    task,              \* per model: the process_queue_continuously task
    metrics,           \* per model: InferenceMetrics counters
    accepted,          \* per model: requests add() accepted, in order
    released,          \* per model: requests get_batch() returned, in order
    oldest_since,      \* per model: when the head of the queue became the head
    last_call          \* the queue operation the last step made

batchVars == <<requests, queue, task, metrics, accepted, released,
               oldest_since, last_call>>

(* state of the GPUMonitor and of ModelLoader.predict_batch *)
VARIABLES
    is_cuda,               \* torch.cuda.is_available()
    memory_usage_percent,  \* what get_current_metrics reads from the device
    batch_metrics,         \* GPUMonitor.batch_metrics: success of each batch
    reduce_call,           \* the last should_reduce_batch_size call
    pb                     \* the predict_batch call

loaderVars == <<is_cuda, memory_usage_percent, batch_metrics, reduce_call, pb>>

(* ------------------------- InferenceSession ---------------------------- *)
NoSession == [session_id |-> <<>>, status |-> "none", start_time |-> -1,
              end_time |-> -1, error |-> "", future_ref |-> "unset"]

NewSession(session_id) ==
    [session_id |-> session_id, status |-> "pending", start_time |-> now,
     end_time |-> -1, error |-> "", future_ref |-> "unset"]

update_status(sess, status, error) ==
    [sess EXCEPT !.status = status,
                 !.error = IF error # "" THEN error ELSE @,
                 !.end_time = IF status \in Terminal THEN now ELSE @]

(* ------------------------------ helpers -------------------------------- *)
DictSet(d, k, v) == [x \in DOMAIN d \cup {k} |-> IF x = k THEN v ELSE d[x]]
DictPop(d, k) == [x \in DOMAIN d \ {k} |-> d[x]]

NumStreams == IF enable_cuda_streams /\ cuda_available THEN max_workers ELSE 0

Busy(t) == \E c \in Calls : caller[c] = t /\ pc[c] \in {"waiting", "exiting"}
HasNewCall == \E c \in Calls : pc[c] = "new"
NextCallId == CHOOSE c \in Calls : pc[c] = "new" /\ \A d \in Calls : d < c => pc[d] # "new"

FutureDone(c) == future[c] \in {"result", "InferenceResourceError", "RuntimeError", "cancelled"}
Executing == {c \in Calls : future[c] = "running"}

(* variant: the wait reports a timeout only once the worker has ended *)
TimeoutAfterJoin(c) == pc[c] = "waiting" /\ FutureDone(c) /\ now > deadline[c]
(* future.result(timeout) raises the futures TimeoutError *)
TimeoutDue(c) == pc[c] = "waiting" /\ ~FutureDone(c) /\ now >= deadline[c]

CallerCanStep(c) ==
    \/ pc[c] = "exiting"
    \/ pc[c] = "waiting" /\ FutureDone(c)
    \/ TimeoutDue(c)

(* -------------------------------- Init --------------------------------- *)
(* a check that did not run sampled nothing *)
NotSampled == -1
NoPreflight == [memory |-> NotSampled, utilization |-> NotSampled,
                recheck |-> NotSampled]

NoShutdown == [pc |-> "idle", wait |-> FALSE, deadline |-> -1, pending |-> {},
               returned |-> 0, since |-> -1]

ExecInit ==
    /\ now = 0
    /\ pc = [c \in Calls |-> "new"]
    /\ caller = [c \in Calls |-> 0]
    /\ deadline = [c \in Calls |-> -1]
    /\ session = [c \in Calls |-> NoSession]
    /\ sessions = <<>>
    /\ future = [c \in Calls |-> "none"]
    /\ work_queue = <<>>
    /\ stream_index = 0
    /\ stream = [c \in Calls |-> -1]
    /\ total_inferences = 0
    /\ timeout_count = 0
    /\ failure_count = 0
    /\ cleanups = [c \in Calls |-> [emergency |-> 0, empty_cache |-> 0]]
    /\ exc = [c \in Calls |-> "None"]
    /\ outcome = [c \in Calls |-> "none"]
    /\ releasedAt = [c \in Calls |-> -1]
    /\ executor_shutdown = FALSE
    /\ sd = NoShutdown
    /\ called_shut = [c \in Calls |-> FALSE]
    /\ preflight = [c \in Calls |-> NoPreflight]

(* ------------------------ execute_inference ---------------------------- *)
emergency_memory_cleanup(cl) ==
    IF cuda_available
    THEN [cl EXCEPT !.emergency = @ + 1, !.empty_cache = @ + 1]
    ELSE [cl EXCEPT !.emergency = @ + 1]

empty_cache(cl) == IF cuda_available THEN [cl EXCEPT !.empty_cache = @ + 1] ELSE cl

(* variant: a call refused by its checks is counted as a failure *)
RejectedAndCounted(c, t, error, cl) ==
    /\ UNCHANGED <<batchVars, loaderVars, moduleVars, executor_shutdown, sd>>
    /\ called_shut' = [called_shut EXCEPT ![c] = executor_shutdown]
    /\ pc' = [pc EXCEPT ![c] = "done"]
    /\ caller' = [caller EXCEPT ![c] = t]
    /\ outcome' = [outcome EXCEPT ![c] = error]
    /\ releasedAt' = [releasedAt EXCEPT ![c] = now]
    /\ cleanups' = [cleanups EXCEPT ![c] = cl]
    /\ failure_count' = failure_count + 1
    /\ UNCHANGED <<now, deadline, session, sessions, future,
                   work_queue, stream_index, stream, total_inferences,
                   timeout_count, exc>>

(* the call raised before a session was registered *)
Rejected(c, t, error, cl) ==
    /\ UNCHANGED <<batchVars, loaderVars, moduleVars, executor_shutdown, sd>>
    /\ called_shut' = [called_shut EXCEPT ![c] = executor_shutdown]
    /\ pc' = [pc EXCEPT ![c] = "done"]
    /\ caller' = [caller EXCEPT ![c] = t]
    /\ outcome' = [outcome EXCEPT ![c] = error]
    /\ releasedAt' = [releasedAt EXCEPT ![c] = now]
    /\ cleanups' = [cleanups EXCEPT ![c] = cl]
    /\ UNCHANGED <<now, deadline, session, sessions, future,
                   work_queue, stream_index, stream, total_inferences,
                   timeout_count, failure_count, exc>>

(* variant: a pool that takes work whatever its state *)
always_schedules == FALSE
(* ThreadPoolExecutor.submit raises RuntimeError once the pool is shut down *)
cannot_schedule == executor_shutdown

(* submit raised inside inference_context: the session is marked FAILED and *)
(* removed again, and the RuntimeError leaves execute_inference             *)
RefusedAtSubmit(c, t, cl) ==
    LET session_id == <<now, t>>
        sess == update_status(NewSession(session_id), "running", "")
    IN  /\ UNCHANGED <<batchVars, loaderVars, moduleVars, executor_shutdown, sd>>
        /\ called_shut' = [called_shut EXCEPT ![c] = executor_shutdown]
        /\ pc' = [pc EXCEPT ![c] = "done"]
        /\ caller' = [caller EXCEPT ![c] = t]
        /\ cleanups' = [cleanups EXCEPT ![c] = cl]
        /\ IF NumStreams = 0
           THEN UNCHANGED <<stream_index, stream>>
           ELSE /\ stream' = [stream EXCEPT ![c] = stream_index]
                /\ stream_index' = (stream_index + 1) % NumStreams
        /\ sessions' = DictPop(DictSet(sessions, session_id, c), session_id)
        /\ session' = [session EXCEPT ![c] = update_status(sess, "failed", "RuntimeError")]
        /\ outcome' = [outcome EXCEPT ![c] = "RuntimeError"]
        /\ releasedAt' = [releasedAt EXCEPT ![c] = now]
        /\ UNCHANGED <<now, deadline, future, work_queue, total_inferences,
                       timeout_count, failure_count, exc>>

(* stream hand-out, session registration, submit, start of the wait *)
Submitted(c, t, timeout, cl) ==
    LET session_id == <<now, t>>
        sess == update_status(NewSession(session_id), "running", "")
    IN  /\ UNCHANGED <<batchVars, loaderVars, moduleVars, executor_shutdown, sd>>
        /\ called_shut' = [called_shut EXCEPT ![c] = executor_shutdown]
        /\ pc' = [pc EXCEPT ![c] = "waiting"]
        /\ caller' = [caller EXCEPT ![c] = t]
        /\ cleanups' = [cleanups EXCEPT ![c] = cl]
        /\ IF NumStreams = 0
           THEN UNCHANGED <<stream_index, stream>>
           ELSE /\ stream' = [stream EXCEPT ![c] = stream_index]
                /\ stream_index' = (stream_index + 1) % NumStreams
        /\ sessions' = DictSet(sessions, session_id, c)
        /\ session' = [session EXCEPT ![c] = [sess EXCEPT !.future_ref = "future"]]
        /\ future' = [future EXCEPT ![c] = "pending"]
        /\ work_queue' = Append(work_queue, c)
        /\ deadline' = [deadline EXCEPT ![c] = now + timeout]
        /\ UNCHANGED <<now, total_inferences, timeout_count,
                       failure_count, exc, outcome, releasedAt>>

Admitted(c, t, timeout, cl) ==
    IF cannot_schedule THEN RefusedAtSubmit(c, t, cl) ELSE Submitted(c, t, timeout, cl)

(* what _check_resources and _check_gpu_memory_pressure read for call c *)
Sampled(c, memory_usage, utilization, recheck) ==
    preflight' = [preflight EXCEPT ![c] = [memory |-> memory_usage,
                                           utilization |-> utilization,
                                           recheck |-> recheck]]

(* _check_resources: the sampled memory usage is over the hard limit *)
exceeds_limit(memory_usage) == memory_usage > memory_limit_bytes

(* _check_gpu_memory_pressure: the first sample triggers the cleanup *)
needs_cleanup(utilization) == utilization > emergency_cleanup_threshold

(* variant: the re-check after the cleanup uses the emergency threshold *)
still_emergency(recheck) == recheck > emergency_cleanup_threshold
(* _check_gpu_memory_pressure: the sample after the cleanup is still high *)
still_critical(recheck) == recheck > memory_pressure_threshold

ExecuteInference(t, timeout_arg) ==
    /\ HasNewCall
    /\ ~Busy(t)
    /\ LET c == NextCallId
           timeout == IF timeout_arg = 0 THEN default_timeout ELSE timeout_arg
           cl == cleanups[c]
       IN IF ~enable_monitoring
          THEN /\ Sampled(c, NotSampled, NotSampled, NotSampled)
               /\ Admitted(c, t, timeout, cl)
          ELSE \E memory_usage \in MemorySamples :
            IF exceeds_limit(memory_usage)
            THEN /\ Sampled(c, memory_usage, NotSampled, NotSampled)
                 /\ Rejected(c, t, "InferenceResourceError", cl)
            ELSE IF ~cuda_available
            THEN /\ Sampled(c, memory_usage, NotSampled, NotSampled)
                 /\ Admitted(c, t, timeout, cl)
            ELSE \E utilization \in Utilizations :
                   IF needs_cleanup(utilization)
                   THEN \E recheck \in Utilizations :
                          /\ Sampled(c, memory_usage, utilization, recheck)
                          /\ IF still_critical(recheck)
                             THEN Rejected(c, t, "InferenceResourceError",
                                           emergency_memory_cleanup(cl))
                             ELSE Admitted(c, t, timeout,
                                           emergency_memory_cleanup(cl))
                   ELSE /\ Sampled(c, memory_usage, utilization, NotSampled)
                        /\ Admitted(c, t, timeout, cl)

(* ------------------------------ workers -------------------------------- *)
(* variant: a pool that starts a thread for every work item *)
thread_per_item == TRUE
(* ThreadPoolExecutor(max_workers): only an idle worker takes a work item *)
idle_worker == Cardinality(Executing) < max_workers

(* a free worker takes the next work item; a cancelled one is dropped *)
WorkerStart ==
    /\ UNCHANGED <<batchVars, loaderVars, moduleVars, shutdownVars, preflight>>
    /\ work_queue # <<>>
    /\ idle_worker
    /\ LET c == Head(work_queue)
       IN /\ work_queue' = Tail(work_queue)
          /\ future' = IF future[c] = "pending"
                       THEN [future EXCEPT ![c] = "running"]
                       ELSE future
    /\ UNCHANGED <<now, pc, caller, deadline, session, sessions,
                   stream_index, stream, total_inferences, timeout_count,
                   failure_count, cleanups, exc, outcome, releasedAt>>

(* _run_inference for a model callable that ends as b *)
run_inference(c, b) ==
    CASE b = "return" -> [future |-> "result", cleanups |-> cleanups[c]]
      [] b = "out of memory" ->
            [future |-> "InferenceResourceError",
             cleanups |-> emergency_memory_cleanup(cleanups[c])]
      [] OTHER -> [future |-> "RuntimeError", cleanups |-> cleanups[c]]

(* variant: the callback clears the future of every session of the thread *)
ClearOfThread(c) ==
    [d \in Calls |-> IF caller[d] = caller[c] /\ session[d].future_ref # "unset"
                     THEN [session[d] EXCEPT !.future_ref = "None"]
                     ELSE session[d]]

(* the done-callback of call c's future, run by the finishing worker *)
clear_future_ref(c) ==
    [session EXCEPT ![c] = IF @.future_ref # "unset"
                           THEN [@ EXCEPT !.future_ref = "None"] ELSE @]

(* the model callable of call c ends; one that blocks never takes this step *)
WorkerFinish(c, b) ==
    /\ UNCHANGED <<batchVars, loaderVars, moduleVars, shutdownVars, preflight>>
    /\ future[c] = "running"
    /\ future' = [future EXCEPT ![c] = run_inference(c, b).future]
    /\ cleanups' = [cleanups EXCEPT ![c] = run_inference(c, b).cleanups]
    /\ session' = clear_future_ref(c)
    /\ UNCHANGED <<now, pc, caller, deadline, sessions, work_queue,
                   stream_index, stream, total_inferences, timeout_count,
                   failure_count, exc, outcome, releasedAt>>

(* --------------------- the caller after its wait ----------------------- *)
FutureResult(c) ==
    /\ UNCHANGED <<batchVars, loaderVars, moduleVars, shutdownVars, preflight>>
    /\ pc[c] = "waiting"
    /\ future[c] = "result"
    /\ total_inferences' = total_inferences + 1
    /\ pc' = [pc EXCEPT ![c] = "exiting"]
    /\ UNCHANGED <<now, caller, deadline, session, sessions, future,
                   work_queue, stream_index, stream, timeout_count,
                   failure_count, cleanups, exc, outcome, releasedAt>>

FutureTimeout(c) ==
    /\ UNCHANGED <<batchVars, loaderVars, moduleVars, shutdownVars, preflight>>
    /\ TimeoutDue(c)
    /\ future' = IF future[c] = "pending"
                 THEN [future EXCEPT ![c] = "cancelled"] ELSE future
    /\ session' = [session EXCEPT ![c] = update_status(@, "timeout", "")]
    /\ timeout_count' = timeout_count + 1
    /\ cleanups' = [cleanups EXCEPT ![c] = empty_cache(@)]
    /\ exc' = [exc EXCEPT ![c] = "InferenceTimeoutError"]
    /\ pc' = [pc EXCEPT ![c] = "exiting"]
    /\ UNCHANGED <<now, caller, deadline, sessions, work_queue,
                   stream_index, stream, total_inferences, failure_count,
                   outcome, releasedAt>>

(* the error execute_inference raises for an exception e of the callable *)
WrapException(e) == "InferenceError"

FutureException(c) ==
    /\ UNCHANGED <<batchVars, loaderVars, moduleVars, shutdownVars, preflight>>
    /\ pc[c] = "waiting"
    /\ future[c] \in {"InferenceResourceError", "RuntimeError", "cancelled"}
    /\ session' = [session EXCEPT ![c] = update_status(@, "failed", future[c])]
    /\ failure_count' = failure_count + 1
    /\ cleanups' = [cleanups EXCEPT ![c] = empty_cache(@)]
    /\ exc' = [exc EXCEPT ![c] = WrapException(future[c])]
    /\ pc' = [pc EXCEPT ![c] = "exiting"]
    /\ UNCHANGED <<now, caller, deadline, sessions, future,
                   work_queue, stream_index, stream, total_inferences,
                   timeout_count, outcome, releasedAt>>

(* the finally block of inference_context *)
(* variant: the session is removed on the success path only *)
PopOnSuccess(c) ==
    IF exc[c] = "None" THEN DictPop(sessions, session[c].session_id) ELSE sessions
PopSession(c) == DictPop(sessions, session[c].session_id)

(* leaving inference_context: normally or with the exception exc[c] *)
ContextExit(c) ==
    /\ UNCHANGED <<batchVars, loaderVars, moduleVars, shutdownVars, preflight>>
    /\ pc[c] = "exiting"
    /\ session' = [session EXCEPT ![c] =
                     IF exc[c] = "None"
                     THEN update_status(@, "completed", "")
                     ELSE update_status(@, "failed", exc[c])]
    /\ sessions' = PopSession(c)
    /\ outcome' = [outcome EXCEPT ![c] = IF exc[c] = "None" THEN "result" ELSE exc[c]]
    /\ releasedAt' = [releasedAt EXCEPT ![c] = now]
    /\ pc' = [pc EXCEPT ![c] = "done"]
    /\ UNCHANGED <<now, caller, deadline, future, work_queue,
                   stream_index, stream, total_inferences, timeout_count,
                   failure_count, cleanups, exc>>

Tick ==
    /\ UNCHANGED <<batchVars, loaderVars, moduleVars, shutdownVars, preflight>>
    /\ now < MaxTime
    /\ \A c \in Calls : ~CallerCanStep(c)
    /\ now' = now + 1
    /\ UNCHANGED <<pc, caller, deadline, session, sessions, future,
                   work_queue, stream_index, stream, total_inferences,
                   timeout_count, failure_count, cleanups, exc, outcome,
                   releasedAt>>

(* ------------------------------ shutdown ------------------------------- *)
Registered == {c \in Calls : \E k \in DOMAIN sessions : sessions[k] = c}

(* concurrent.futures.wait is over: every future is done or time is up *)
WaitOver == \/ \A c \in sd.pending : FutureDone(c)
            \/ now >= sd.deadline

(* the workers have drained the queue and ended: executor.shutdown(wait=True) *)
WorkersJoined == work_queue = <<>> /\ Executing = {}

ShutdownCanStep ==
    \/ sd.pc = "waiting" /\ WaitOver
    \/ sd.pc = "joining" /\ WorkersJoined

(* shutdown up to its first wait: every registered session is marked        *)
(* CANCELLED, the futures still referenced by a session are collected       *)
Shutdown(wait, timeout) ==
    /\ sd.pc = "idle"
    /\ sd.returned < MaxShutdowns
    /\ session' = [c \in Calls |-> IF c \in Registered
                                   THEN update_status(session[c], "cancelled", "")
                                   ELSE session[c]]
    /\ LET pending == {c \in Registered : session[c].future_ref = "future"}
       IN IF wait /\ timeout # 0 /\ pending # {}
          THEN /\ sd' = [sd EXCEPT !.pc = "waiting", !.wait = wait,
                                   !.deadline = now + timeout, !.pending = pending,
                                   !.since = now]
               /\ UNCHANGED executor_shutdown
          ELSE /\ executor_shutdown' = TRUE
               /\ sd' = IF wait
                        THEN [sd EXCEPT !.pc = "joining", !.wait = wait,
                                        !.since = now]
                        ELSE [sd EXCEPT !.wait = wait, !.returned = @ + 1]
    /\ UNCHANGED <<now, pc, caller, deadline, sessions, future, work_queue,
                   stream_index, stream, total_inferences, timeout_count,
                   failure_count, cleanups, exc, outcome, releasedAt, called_shut>>
    /\ UNCHANGED <<batchVars, loaderVars, moduleVars, preflight>>

(* the wait for the collected futures ends: those not done are cancelled    *)
(* (a running one cannot be) and the pool is shut down                      *)
ShutdownCancel ==
    /\ sd.pc = "waiting"
    /\ WaitOver
    /\ future' = [c \in Calls |-> IF c \in sd.pending /\ future[c] = "pending"
                                  THEN "cancelled" ELSE future[c]]
    /\ executor_shutdown' = TRUE
    /\ sd' = [sd EXCEPT !.pc = "joining", !.pending = {}, !.deadline = -1]
    /\ UNCHANGED <<now, pc, caller, deadline, session, sessions, work_queue,
                   stream_index, stream, total_inferences, timeout_count,
                   failure_count, cleanups, exc, outcome, releasedAt, called_shut>>
    /\ UNCHANGED <<batchVars, loaderVars, moduleVars, preflight>>

(* executor.shutdown(wait=True) has joined the workers: shutdown returns *)
ShutdownReturn ==
    /\ sd.pc = "joining"
    /\ WorkersJoined
    /\ sd' = [sd EXCEPT !.pc = "idle", !.returned = @ + 1, !.since = -1]
    /\ UNCHANGED <<now, pc, caller, deadline, session, sessions, future, work_queue,
                   stream_index, stream, total_inferences, timeout_count,
                   failure_count, cleanups, exc, outcome, releasedAt,
                   executor_shutdown, called_shut>>
    /\ UNCHANGED <<batchVars, loaderVars, moduleVars, preflight>>

(* time passes only when neither a caller nor shutdown can go on *)
ShutdownTick == ~ShutdownCanStep /\ Tick

(* ------------- get_global_executor / cleanup_global_executor ----------- *)
GlobalInit ==
    /\ global_executor = 0
    /\ executor_lock = 0
    /\ constructed = 0
    /\ shut_down = {}
    /\ cleanups_run = 0
    /\ gpc = [t \in Threads |-> "idle"]
    /\ handed_out = <<>>

(* variant: a lock that any thread may enter *)
lock_open(t) == TRUE
(* threading.Lock: free for t when nobody holds it *)
lock_free(t) == executor_lock = 0

globalRest == <<execVars_but_module, batchVars, loaderVars, cancelVars, threadVars>>

(* with _executor_lock: of get_global_executor, then the test for None *)
GetAcquire(t) ==
    /\ gpc[t] = "idle"
    /\ Len(handed_out) < MaxHanded
    /\ lock_free(t)
    /\ executor_lock' = t
    /\ gpc' = [gpc EXCEPT ![t] = IF global_executor = 0 THEN "construct" ELSE "return"]
    /\ UNCHANGED <<global_executor, constructed, shut_down, cleanups_run, handed_out>>
    /\ UNCHANGED globalRest

(* _global_executor = InferenceExecutor(...) *)
GetConstruct(t) ==
    /\ gpc[t] = "construct"
    /\ constructed < MaxInstances
    /\ constructed' = constructed + 1
    /\ global_executor' = constructed + 1
    /\ gpc' = [gpc EXCEPT ![t] = "return"]
    /\ UNCHANGED <<executor_lock, shut_down, cleanups_run, handed_out>>
    /\ UNCHANGED globalRest

(* return _global_executor, leaving the with block *)
GetReturn(t) ==
    /\ gpc[t] = "return"
    /\ handed_out' = Append(handed_out, [thread |-> t, instance |-> global_executor,
                                 after |-> cleanups_run])
    /\ executor_lock' = IF executor_lock = t THEN 0 ELSE executor_lock
    /\ gpc' = [gpc EXCEPT ![t] = "idle"]
    /\ UNCHANGED <<global_executor, constructed, shut_down, cleanups_run>>
    /\ UNCHANGED globalRest

(* with _executor_lock: of cleanup_global_executor *)
CleanupAcquire(t) ==
    /\ gpc[t] = "idle"
    /\ cleanups_run < MaxCleanups
    /\ lock_free(t)
    /\ executor_lock' = t
    /\ gpc' = [gpc EXCEPT ![t] = "cleanup"]
    /\ UNCHANGED <<global_executor, constructed, shut_down, cleanups_run, handed_out>>
    /\ UNCHANGED globalRest

(* the body of cleanup_global_executor: shutdown() and the reset to None *)
CleanupRun(t) ==
    /\ gpc[t] = "cleanup"
    /\ shut_down' = IF global_executor # 0 THEN shut_down \cup {global_executor}
                    ELSE shut_down
    /\ global_executor' = 0
    /\ cleanups_run' = cleanups_run + 1
    /\ executor_lock' = IF executor_lock = t THEN 0 ELSE executor_lock
    /\ gpc' = [gpc EXCEPT ![t] = "idle"]
    /\ UNCHANGED <<constructed, handed_out>>
    /\ UNCHANGED globalRest

(* ---------- execute_inference on the calling thread, by statement ------ *)
NoStream == -1

ThreadInit ==
    /\ stream_lock = 0
    /\ tpc = [t \in Threads |-> "idle"]
    /\ bound_stream = [t \in Threads |-> NoStream]
    /\ loaded = [t \in Threads |-> 0]
    /\ given = <<>>
    /\ returned_ok = 0

threadRest == <<now, pc, caller, deadline, session, sessions, future,
                work_queue, stream, timeout_count, failure_count, cleanups,
                exc, outcome, releasedAt, shutdownVars, preflight,
                batchVars, loaderVars, globalVars, cancelVars>>

(* variant: get_next_cuda_stream without its lock *)
stream_lock_open(t) == TRUE
(* with self._stream_lock *)
stream_lock_free(t) == stream_lock = 0

(* get_next_cuda_stream enters its with block *)
StreamAcquire(t) ==
    /\ tpc[t] = "idle"
    /\ Len(given) + Cardinality({u \in Threads : tpc[u] \in {"locked", "read"}})
          < MaxStreamCalls
    /\ stream_lock_free(t)
    /\ stream_lock' = t
    /\ tpc' = [tpc EXCEPT ![t] = "locked"]
    /\ UNCHANGED <<cuda_streams, bound_stream, loaded, given, returned_ok,
                   stream_index, total_inferences, threadRest>>

(* stream = self.cuda_streams[self.stream_index] *)
StreamRead(t) ==
    /\ tpc[t] = "locked"
    /\ bound_stream' = [bound_stream EXCEPT ![t] = stream_index]
    /\ tpc' = [tpc EXCEPT ![t] = "read"]
    /\ UNCHANGED <<cuda_streams, stream_lock, loaded, given, returned_ok,
                   stream_index, total_inferences, threadRest>>

(* the index moves on, the lock is released, the stream is returned and the *)
(* callable bound to it is submitted                                        *)
StreamAdvance(t) ==
    /\ tpc[t] = "read"
    /\ stream_index' = (stream_index + 1) % cuda_streams
    /\ stream_lock' = IF stream_lock = t THEN 0 ELSE stream_lock
    /\ given' = Append(given, [thread |-> t, stream |-> bound_stream[t]])
    /\ tpc' = [tpc EXCEPT ![t] = "submitted"]
    /\ UNCHANGED <<cuda_streams, bound_stream, loaded, returned_ok,
                   total_inferences, threadRest>>

OnWorker == {t \in Threads : tpc[t] = "executing"}

(* a free worker of the pool starts the callable inside its stream *)
StreamRun(t) ==
    /\ tpc[t] = "submitted"
    /\ Cardinality(OnWorker) < cuda_streams
    /\ tpc' = [tpc EXCEPT ![t] = "executing"]
    /\ UNCHANGED <<cuda_streams, stream_lock, bound_stream, loaded, given,
                   returned_ok, stream_index, total_inferences, threadRest>>

(* the callable returns and future.result hands its output to the caller *)
StreamDone(t) ==
    /\ tpc[t] = "executing"
    /\ tpc' = [tpc EXCEPT ![t] = "result"]
    /\ UNCHANGED <<cuda_streams, stream_lock, bound_stream, loaded, given,
                   returned_ok, stream_index, total_inferences, threadRest>>

(* self.total_inferences += 1 reads the attribute ... *)
CounterLoad(t) ==
    /\ tpc[t] = "result"
    /\ loaded' = [loaded EXCEPT ![t] = total_inferences]
    /\ tpc' = [tpc EXCEPT ![t] = "loaded"]
    /\ UNCHANGED <<cuda_streams, stream_lock, bound_stream, given,
                   returned_ok, stream_index, total_inferences, threadRest>>

(* ... and stores the sum; execute_inference returns the result *)
CounterStore(t) ==
    /\ tpc[t] = "loaded"
    /\ total_inferences' = loaded[t] + 1
    /\ returned_ok' = returned_ok + 1
    /\ bound_stream' = [bound_stream EXCEPT ![t] = NoStream]
    /\ tpc' = [tpc EXCEPT ![t] = "idle"]
    /\ UNCHANGED <<cuda_streams, stream_lock, loaded, given, stream_index,
                   threadRest>>

(* --------------------------- api/cancel.py ----------------------------- *)
Jobs == {"job-1", "job-2"}
Reasons == {"User requested cancellation", "superseded"}

CancelInit ==
    /\ active_jobs = <<>>
    /\ background_tasks = 0
    /\ responses = <<>>

cancelRest == <<execVars_but_module, batchVars, loaderVars, globalVars, threadVars>>

(* job_context up to its yield: the job is registered as active *)
JobStart(job_id) ==
    /\ job_id \notin DOMAIN active_jobs
    /\ active_jobs' = DictSet(active_jobs, job_id,
                              [type |-> "segmentation", cancelled |-> FALSE,
                               cancel_event |-> FALSE, cancel_reason |-> "unset"])
    /\ UNCHANGED <<background_tasks, responses, cancelRest>>

(* the finally block of job_context *)
JobEnd(job_id) ==
    /\ job_id \in DOMAIN active_jobs
    /\ active_jobs' = DictPop(active_jobs, job_id)
    /\ UNCHANGED <<background_tasks, responses, cancelRest>>

(* POST /api/v1/cancel/{job_id} *)
CancelSegmentation(job_id, reason) ==
    /\ Len(responses) < MaxCancels
    /\ IF job_id \notin DOMAIN active_jobs
       THEN /\ responses' = Append(responses,
                   [job_id |-> job_id, status_code |-> 404, success |-> FALSE,
                    detail |-> "not found or already completed"])
            /\ UNCHANGED <<active_jobs, background_tasks>>
       ELSE /\ active_jobs' = [active_jobs EXCEPT
                                 ![job_id].cancelled = TRUE,
                                 ![job_id].cancel_reason = reason,
                                 ![job_id].cancel_event = TRUE]
            /\ background_tasks' = background_tasks + 1
            /\ responses' = Append(responses,
                   [job_id |-> job_id, status_code |-> 200, success |-> TRUE,
                    detail |-> "Job cancellation requested"])
    /\ UNCHANGED cancelRest

(* -------------------- ProductionInferenceService ----------------------- *)
NoCall == [op |-> "none", model |-> "none", arg |-> 0, ret |-> <<>>]
NoRequest == [image |-> 0, model_name |-> "none", threshold |-> 0, timestamp |-> -1,
              callback |-> [state |-> "none", value |-> <<>>], infer |-> "new"]

BatchInit ==
    /\ requests = [r \in Requests |-> NoRequest]
    /\ queue = [m \in Models |-> <<>>]
    /\ task = [m \in Models |-> "running"]
    /\ metrics = [m \in Models |-> [total_requests |-> 0, total_batches |-> 0]]
    /\ accepted = [m \in Models |-> <<>>]
    /\ released = [m \in Models |-> <<>>]
    /\ oldest_since = [m \in Models |-> -1]
    /\ last_call = NoCall

(* --------------------------- DynamicBatchQueue ------------------------- *)
(* collections.deque(maxlen=max_queue_size) *)
deque_append(q, x) ==
    IF Len(q) >= max_queue_size THEN Append(Tail(q), x) ELSE Append(q, x)

(* variant: deque.pop, from the right end *)
pop(q) == [item |-> q[Len(q)], queue |-> SubSeq(q, 1, Len(q) - 1)]
popleft(q) == [item |-> Head(q), queue |-> Tail(q)]

(* variant: add without the capacity check, the deque then drops its head *)
add_unguarded(q, request) == [ret |-> TRUE, queue |-> deque_append(q, request)]
add(q, request) ==
    IF Len(q) >= max_queue_size
    THEN [ret |-> FALSE, queue |-> q]
    ELSE [ret |-> TRUE, queue |-> deque_append(q, request)]

wait_time_ms(request, current_time) == current_time - requests[request].timestamp

(* variants: a break on the delay alone, and a break up to the delay *)
not_ready_delay_only(q, batch, current_time) ==
    /\ Len(batch) = 0
    /\ wait_time_ms(Head(q), current_time) < max_queue_delay_ms
not_ready_inclusive(q, batch, current_time) ==
    /\ Len(batch) = 0
    /\ wait_time_ms(Head(q), current_time) <= max_queue_delay_ms
    /\ Len(q) < max_batch_size
(* the break of get_batch: the head of the queue is not ready yet *)
not_ready(q, batch, current_time) ==
    /\ Len(batch) = 0
    /\ wait_time_ms(Head(q), current_time) < max_queue_delay_ms
    /\ Len(q) < max_batch_size

(* variant: the loop runs until the queue is empty *)
while_queue(q, batch) == q # <<>>
(* the condition of the while loop of get_batch *)
while_condition(q, batch) == q # <<>> /\ Len(batch) < max_batch_size

RECURSIVE get_batch_loop(_, _, _)
get_batch_loop(q, batch, current_time) ==
    IF while_condition(q, batch)
    THEN IF not_ready(q, batch, current_time)
         THEN [batch |-> batch, queue |-> q]
         ELSE get_batch_loop(popleft(q).queue, Append(batch, popleft(q).item),
                             current_time)
    ELSE [batch |-> batch, queue |-> q]

get_batch(q) ==
    IF q = <<>> THEN [batch |-> <<>>, queue |-> q]
    ELSE get_batch_loop(q, <<>>, now)

(* ------------------------------ infer ---------------------------------- *)
HasNewRequest == \E r \in Requests : requests[r].infer = "new"
NextRequestId ==
    CHOOSE r \in Requests : requests[r].infer = "new"
                            /\ \A d \in Requests : d < r => requests[d].infer # "new"

(* infer up to its await: the request is built and offered to its queue *)
Infer(model_name, threshold) ==
    /\ HasNewRequest
    /\ model_name \in Models
    /\ LET r == NextRequestId
           a == add(queue[model_name], r)
       IN /\ requests' = [requests EXCEPT ![r] =
                 [image |-> r, model_name |-> model_name, threshold |-> threshold,
                  timestamp |-> now,
                  callback |-> [state |-> "pending", value |-> <<>>],
                  infer |-> IF a.ret THEN "awaiting" ELSE "RuntimeError"]]
          /\ queue' = [queue EXCEPT ![model_name] = a.queue]
          /\ accepted' = [accepted EXCEPT ![model_name] =
                             IF a.ret THEN Append(@, r) ELSE @]
          /\ oldest_since' = IF a.ret /\ queue[model_name] = <<>>
                              THEN [oldest_since EXCEPT ![model_name] = now]
                              ELSE oldest_since
          /\ last_call' = [op |-> "add", model |-> model_name, arg |-> r,
                           ret |-> a.ret]
    /\ UNCHANGED <<task, metrics, released>>
    /\ UNCHANGED <<execVars, loaderVars>>

(* asyncio.wait_for gives up: it cancels the future and infer raises *)
InferTimeout(r) ==
    /\ requests[r].infer = "awaiting"
    /\ requests[r].callback.state = "pending"
    /\ now >= requests[r].timestamp + infer_timeout_ms
    /\ requests' = [requests EXCEPT ![r].callback.state = "cancelled",
                                    ![r].infer = "TimeoutError"]
    /\ last_call' = NoCall
    /\ UNCHANGED <<queue, task, metrics, accepted, released, oldest_since>>
    /\ UNCHANGED <<execVars, loaderVars>>

(* ---------------------------- process_batch ---------------------------- *)
preprocess_batch(images) == [i \in 1..Len(images) |-> [tensor_of |-> images[i]]]
forward(batch_tensor) ==
    [i \in 1..Len(batch_tensor) |-> [logits_of |-> batch_tensor[i].tensor_of]]

(* variant: the masks come out in reverse batch order *)
postprocess_reversed(output, threshold) ==
    [i \in 1..Len(output) |->
        [mask_of |-> output[Len(output) + 1 - i].logits_of, threshold |-> threshold]]
postprocess_batch(output, threshold) ==
    [i \in 1..Len(output) |-> [mask_of |-> output[i].logits_of, threshold |-> threshold]]

RECURSIVE Sum(_)
Sum(s) == IF s = <<>> THEN 0 ELSE Head(s) + Sum(Tail(s))
(* np.mean, kept exact as <<sum, count>> *)
mean(s) == <<Sum(s), Len(s)>>

(* Future.set_result / set_exception raise InvalidStateError unless pending *)
RECURSIVE set_results(_, _, _, _)
set_results(rs, batch, results, i) ==
    IF i > Len(batch) THEN [requests |-> rs, raised |-> FALSE]
    ELSE IF rs[batch[i]].callback.state = "pending"
    THEN set_results([rs EXCEPT ![batch[i]].callback =
                          [state |-> "result", value |-> results[i]]],
                     batch, results, i + 1)
    ELSE [requests |-> rs, raised |-> TRUE]

RECURSIVE set_exceptions(_, _, _, _)
set_exceptions(rs, batch, e, i) ==
    IF i > Len(batch) THEN [requests |-> rs, raised |-> FALSE]
    ELSE IF rs[batch[i]].callback.state = "pending"
    THEN set_exceptions([rs EXCEPT ![batch[i]].callback =
                             [state |-> "exception", value |-> e]],
                        batch, e, i + 1)
    ELSE [requests |-> rs, raised |-> TRUE]

(* process_batch for a non-empty batch; forward_ok: the model call succeeded. *)
(* raised: an exception left process_batch.                                   *)
process_batch(model_name, batch, forward_ok) ==
    LET images == [i \in 1..Len(batch) |-> requests[batch[i]].image]
        output == forward(preprocess_batch(images))
        thresholds == [i \in 1..Len(batch) |-> requests[batch[i]].threshold]
        results == postprocess_batch(output, mean(thresholds))
        counted == [metrics[model_name] EXCEPT !.total_requests = @ + Len(batch),
                                               !.total_batches = @ + 1]
        done == set_results(requests, batch, results, 1)
    IN  IF ~forward_ok
        THEN LET failed == set_exceptions(requests, batch, "Exception", 1)
             IN [requests |-> failed.requests, metrics |-> metrics[model_name],
                 raised |-> failed.raised]
        ELSE IF ~done.raised
        THEN [requests |-> done.requests, metrics |-> counted, raised |-> FALSE]
        ELSE LET failed == set_exceptions(done.requests, batch, "InvalidStateError", 1)
             IN [requests |-> failed.requests, metrics |-> counted,
                 raised |-> failed.raised]

(* one iteration of process_queue_continuously; process_batch has no await *)
(* in it, so the event loop runs nothing else for the duration of the batch *)
ProcessQueueStep(model_name, forward_ok, duration) ==
    /\ task[model_name] = "running"
    /\ now + duration <= LoopMaxTime
    /\ LET got == get_batch(queue[model_name])
       IN /\ queue' = [queue EXCEPT ![model_name] = got.queue]
          /\ released' = [released EXCEPT ![model_name] = @ \o got.batch]
          /\ oldest_since' = IF got.batch # <<>> /\ got.queue # <<>>
                              THEN [oldest_since EXCEPT ![model_name] = now]
                              ELSE oldest_since
          /\ last_call' = [op |-> "get_batch", model |-> model_name, arg |-> 0,
                           ret |-> got.batch]
          /\ IF got.batch = <<>>
             THEN /\ forward_ok
                  /\ duration = 0
                  /\ UNCHANGED <<requests, metrics, task>>
             ELSE LET p == process_batch(model_name, got.batch, forward_ok)
                  IN /\ requests' = p.requests
                     /\ metrics' = [metrics EXCEPT ![model_name] = p.metrics]
                     /\ task' = IF p.raised
                                THEN [task EXCEPT ![model_name] = "crashed"]
                                ELSE task
    /\ now' = now + duration
    /\ UNCHANGED <<accepted>>
    /\ UNCHANGED <<execRest, loaderVars>>

(* an iteration whose batch takes no measurable time *)
ProcessQueue(model_name, forward_ok) == ProcessQueueStep(model_name, forward_ok, 0)

BatchTick ==
    /\ now < BatchMaxTime
    /\ now' = now + 1
    /\ last_call' = NoCall
    /\ UNCHANGED <<execRest, loaderVars>>
    /\ UNCHANGED <<requests, queue, task, metrics, accepted, released, oldest_since>>

(* the loop polls its queue every millisecond: time does not pass a running *)
(* loop whose queue has a batch to give                                     *)
LoopIdle ==
    \A m \in Models : task[m] = "running" => get_batch(queue[m]).batch = <<>>
LoopTick == LoopIdle /\ BatchTick

(* ------------------------------ GPUMonitor ----------------------------- *)
NoReduce == [called |-> FALSE, threshold |-> 0, ret |-> FALSE]
NoPredict == [pc |-> "idle", images |-> <<>>, batch_size |-> 0, batch_start |-> 0,
              all_results |-> <<>>, error |-> "None",
              last |-> [n |-> 0, pressure |-> FALSE, handed |-> <<>>,
                        model_call |-> "none"]]

LoaderInit ==
    /\ is_cuda \in BOOLEAN
    /\ memory_usage_percent = NoReading
    /\ batch_metrics = <<>>
    /\ reduce_call = NoReduce
    /\ pb = NoPredict

Max(a, b) == IF a >= b THEN a ELSE b
Min(a, b) == IF a <= b THEN a ELSE b

get_current_metrics == IF ~is_cuda THEN NoReading ELSE memory_usage_percent

(* variant: every recorded batch counts, not the last five *)
whole_history(bm) == bm
(* batch_metrics[-5:] *)
recent(bm) == SubSeq(bm, Max(1, Len(bm) - recent_window + 1), Len(bm))

recent_failures(bm) == Cardinality({i \in 1..Len(recent(bm)) : ~recent(bm)[i]})

should_reduce_batch_size(threshold) ==
    IF ~is_cuda THEN FALSE
    ELSE IF get_current_metrics # NoReading /\ get_current_metrics > threshold THEN TRUE
    ELSE IF recent_failures(batch_metrics) >= failure_limit THEN TRUE
    ELSE FALSE

(* the device's memory use changes, or reading it starts to fail *)
MemoryChange(reading) ==
    /\ is_cuda
    /\ reading # memory_usage_percent
    /\ memory_usage_percent' = reading
    /\ reduce_call' = NoReduce
    /\ UNCHANGED <<is_cuda, batch_metrics, pb>>
    /\ UNCHANGED <<execVars, batchVars>>

RecordBatchProcessing(success) ==
    /\ Len(batch_metrics) < MaxBatchMetrics
    /\ batch_metrics' = Append(batch_metrics, success)
    /\ reduce_call' = NoReduce
    /\ UNCHANGED <<is_cuda, memory_usage_percent, pb>>
    /\ UNCHANGED <<execVars, batchVars>>

ShouldReduceBatchSize(threshold) ==
    /\ reduce_call' = [called |-> TRUE, threshold |-> threshold,
                       ret |-> should_reduce_batch_size(threshold)]
    /\ UNCHANGED <<is_cuda, memory_usage_percent, batch_metrics, pb>>
    /\ UNCHANGED <<execVars, batchVars>>

(* ----------------------- ModelLoader.predict_batch --------------------- *)
(* predict_batch up to its loop; batch_size_arg 0 stands for None *)
PredictBatch(n, batch_size_arg) ==
    /\ pb.pc = "idle"
    /\ LET images == [i \in 1..n |-> i]
           wanted == IF batch_size_arg = 0 THEN optimal_batch_size ELSE batch_size_arg
           batch_size == IF wanted > max_safe_batch_size THEN max_safe_batch_size
                         ELSE wanted
       IN pb' = IF images = <<>>
                THEN [pb EXCEPT !.pc = "returned"]
                ELSE [pb EXCEPT !.pc = "loop", !.images = images,
                                !.batch_size = batch_size]
    /\ reduce_call' = NoReduce
    /\ UNCHANGED <<is_cuda, memory_usage_percent, batch_metrics>>
    /\ UNCHANGED <<execVars, batchVars>>

(* variant: one image less under pressure *)
one_less(current_batch_size) == Max(1, current_batch_size - 1)
(* max(1, current_batch_size // 2) *)
halve(current_batch_size) == Max(1, current_batch_size \div 2)

(* what the batched model call does: one of Behaviours, or it blocks *)
ModelCalls == Behaviours \cup {"blocks"}

(* what execute_inference gives predict_batch for a model call that ends as *)
(* b: the result, or the error it raises for the exception of the future    *)
execute_inference_outcome(b) ==
    LET f == run_inference(CHOOSE c \in Calls : TRUE, b).future
    IN  IF b = "blocks" THEN "InferenceTimeoutError"
        ELSE IF f = "result" THEN "return"
        ELSE WrapException(f)

(* one iteration of the loop over the batches; model_call: what the model   *)
(* does with the batch that execute_inference hands it                      *)
BatchIteration(model_call) ==
    /\ pb.pc = "loop"
    /\ LET executed == execute_inference_outcome(model_call)
           batch_start == pb.batch_start
           batch_end == Min(batch_start + pb.batch_size, Len(pb.images))
           batch_images == SubSeq(pb.images, batch_start + 1, batch_end)
           has_monitor == is_cuda /\ gpu_monitor_available
           pressure == has_monitor /\ should_reduce_batch_size(default_threshold)
           current_batch_size == IF pressure /\ Len(batch_images) > 1
                                 THEN halve(Len(batch_images))
                                 ELSE Len(batch_images)
           handed == SubSeq(batch_images, 1, current_batch_size)
           last == [n |-> Len(batch_images), pressure |-> pressure,
                    handed |-> handed, model_call |-> model_call]
           results == [i \in 1..Len(handed) |->
                          [image |-> handed[i], batch_size |-> current_batch_size,
                           batch_position |-> i]]
           (* except torch.cuda.OutOfMemoryError: each image of the batch *)
           (* singly; the single calls are taken to return                *)
           singly == [i \in 1..Len(handed) |->
                          [image |-> handed[i], batch_size |-> 1,
                           batch_position |-> 1]]
           fallback == executed = "OutOfMemoryError" /\ current_batch_size > 1
       IN IF executed = "return" \/ fallback
          THEN /\ has_monitor => Len(batch_metrics) < MaxBatchMetrics
               /\ batch_metrics' = IF has_monitor THEN Append(batch_metrics, TRUE)
                                   ELSE batch_metrics
               /\ pb' = [pb EXCEPT !.all_results = @ \o (IF fallback THEN singly
                                                          ELSE results),
                                   !.batch_start = batch_start + pb.batch_size,
                                   !.last = last,
                                   !.pc = IF batch_start + pb.batch_size >= Len(pb.images)
                                          THEN "returned" ELSE "loop"]
          ELSE /\ pb' = [pb EXCEPT !.pc = "raised",
                                   !.error = IF executed = "OutOfMemoryError"
                                             THEN "InferenceError" ELSE executed,
                                   !.last = last]
               /\ UNCHANGED batch_metrics
    /\ reduce_call' = NoReduce
    /\ UNCHANGED <<is_cuda, memory_usage_percent>>
    /\ UNCHANGED <<execVars, batchVars>>

vars == <<execVars, batchVars, loaderVars>>

(* a host with or without a CUDA device *)
HostInit ==
    /\ ExecInit /\ BatchInit /\ LoaderInit /\ GlobalInit /\ CancelInit
    /\ ThreadInit /\ cuda_streams = NumStreams

(* the executor and the batching service are run on a CUDA host *)
Init == HostInit /\ is_cuda = cuda_available

Next ==
    \/ \E t \in Threads, timeout_arg \in TimeoutArgs, b \in Behaviours :
            ExecuteInference(t, timeout_arg)
    \/ WorkerStart
    \/ \E c \in Calls, b \in Behaviours : WorkerFinish(c, b)
    \/ \E c \in Calls : FutureResult(c)
    \/ \E c \in Calls : FutureTimeout(c)
    \/ \E c \in Calls : FutureException(c)
    \/ \E c \in Calls : ContextExit(c)
    \/ Tick

Spec == Init /\ [][Next]_vars

(* the executor with shutdown calls from a further thread *)
ShutdownNext ==
    \/ \E t \in Threads : ExecuteInference(t, 0)
    \/ WorkerStart
    \/ \E c \in Calls, b \in Behaviours : WorkerFinish(c, b)
    \/ \E c \in Calls : FutureResult(c)
    \/ \E c \in Calls : FutureTimeout(c)
    \/ \E c \in Calls : FutureException(c)
    \/ \E c \in Calls : ContextExit(c)
    \/ Shutdown(TRUE, shutdown_timeout)
    \/ ShutdownCancel
    \/ ShutdownReturn
    \/ ShutdownTick

ShutdownSpec == Init /\ [][ShutdownNext]_vars

(* threads that get and clean up the global executor *)
GlobalNext ==
    \/ \E t \in Threads : GetAcquire(t)
    \/ \E t \in Threads : GetConstruct(t)
    \/ \E t \in Threads : GetReturn(t)
    \/ \E t \in Threads : CleanupAcquire(t)
    \/ \E t \in Threads : CleanupRun(t)

GlobalSpec == Init /\ [][GlobalNext]_vars

(* jobs and the clients that cancel them *)
CancelNext ==
    \/ \E job_id \in Jobs : JobStart(job_id)
    \/ \E job_id \in Jobs : JobEnd(job_id)
    \/ \E job_id \in Jobs, reason \in Reasons : CancelSegmentation(job_id, reason)

CancelSpec == Init /\ [][CancelNext]_vars

(* threads calling execute_inference on an executor built with 1..MaxStreams *)
(* workers and streams                                                      *)
StreamInit ==
    /\ ExecInit /\ BatchInit /\ LoaderInit /\ GlobalInit /\ CancelInit
    /\ ThreadInit /\ is_cuda = cuda_available
    /\ cuda_streams \in 1..MaxStreams

StreamNext ==
    \/ \E t \in Threads : StreamAcquire(t)
    \/ \E t \in Threads : StreamRead(t)
    \/ \E t \in Threads : StreamAdvance(t)
    \/ \E t \in Threads : StreamRun(t)
    \/ \E t \in Threads : StreamDone(t)
    \/ \E t \in Threads : CounterLoad(t)
    \/ \E t \in Threads : CounterStore(t)

StreamSpec == StreamInit /\ [][StreamNext]_vars

BatchNext ==
    \/ \E model_name \in Models, threshold \in Thresholds : Infer(model_name, threshold)
    \/ \E r \in Requests : InferTimeout(r)
    \/ \E model_name \in Models, forward_ok \in BOOLEAN : ProcessQueue(model_name, forward_ok)
    \/ BatchTick

BatchSpec == Init /\ [][BatchNext]_vars

LoopNext ==
    \/ \E model_name \in Models, threshold \in Thresholds : Infer(model_name, threshold)
    \/ \E r \in Requests : InferTimeout(r)
    \/ \E model_name \in Models, forward_ok \in BOOLEAN, duration \in Durations :
            ProcessQueueStep(model_name, forward_ok, duration)
    \/ LoopTick

LoopSpec == Init /\ [][LoopNext]_vars

(* the service with callers that ask for different thresholds *)
ThresholdNext ==
    \/ \E model_name \in Models, threshold \in MixedThresholds :
            Infer(model_name, threshold)
    \/ \E model_name \in Models, forward_ok \in BOOLEAN : ProcessQueue(model_name, forward_ok)
    \/ BatchTick

ThresholdSpec == Init /\ [][ThresholdNext]_vars

LoaderNext ==
    \/ \E reading \in MemoryReadings : MemoryChange(reading)
    \/ \E success \in BOOLEAN : RecordBatchProcessing(success)
    \/ \E threshold \in ReduceThresholds : ShouldReduceBatchSize(threshold)
    \/ \E n \in 0..MaxImages, batch_size_arg \in BatchSizeArgs :
            PredictBatch(n, batch_size_arg)
    \/ \E model_call \in ModelCalls : BatchIteration(model_call)

LoaderSpec == HostInit /\ [][LoaderNext]_vars

(* ============================== claims ================================= *)
Counters == <<total_inferences, timeout_count, failure_count>>
Finished(c) == future[c] \in {"result", "InferenceResourceError", "RuntimeError"}
InFlight(c) == pc[c] \in {"waiting", "exiting"}

(* C1: a call whose model callable has not returned when its timeout (the  *)
(* given one, or the default) elapses raises the timeout error at that      *)
(* deadline; the caller is released whether or not the worker ever ends.    *)
C1_TimeoutAtDeadline ==
    \A c \in Calls :
        outcome[c] = "InferenceTimeoutError" => releasedAt[c] = deadline[c]

(* a caller was released with a timeout while its callable is still running *)
C1_Witness ==
    \E c \in Calls : /\ outcome[c] = "InferenceTimeoutError"
                     /\ future[c] = "running"
                     /\ releasedAt[c] = deadline[c]

(* C2: once a call that registered a session has returned or raised, its    *)
(* session is out of the registry; with no call in flight the registry is   *)
(* empty.                                                                   *)
C2_NoSessionLeak ==
    /\ \A c \in Calls : pc[c] = "done" =>
            \A k \in DOMAIN sessions : sessions[k] # c
    /\ (\A c \in Calls : ~InFlight(c)) => DOMAIN sessions = {}

(* calls that registered a session ended in a timeout and in a failure and  *)
(* nothing is in flight                                                     *)
C2_Witness ==
    /\ \E c \in Calls : pc[c] = "done" /\ outcome[c] = "InferenceTimeoutError"
    /\ \E c \in Calls : pc[c] = "done" /\ outcome[c] = "InferenceError"
    /\ \A c \in Calls : ~InFlight(c)
    /\ DOMAIN sessions = {}

(* C3: a session in a terminal status keeps that status, and the end         *)
(* timestamp of its first terminal transition, under any further             *)
(* update_status to a terminal status.                                       *)
C3_TerminalStatusKept ==
    [][\A c \in Calls :
          session[c].status \in Terminal =>
              /\ session'[c].status = session[c].status
              /\ session'[c].end_time = session[c].end_time]_vars

(* C4: when the model callable raised an out-of-memory runtime error, the   *)
(* emergency cleanup has run and execute_inference raises                   *)
(* InferenceResourceError.                                                  *)
C4_OomRaisesResourceError ==
    \A c \in Calls :
        (pc[c] = "done" /\ future[c] = "InferenceResourceError"
                        /\ outcome[c] # "InferenceTimeoutError")
        => /\ cleanups[c].emergency >= 1
           /\ outcome[c] = "InferenceResourceError"

(* C5: when a worker ends a model call whose caller already got a timeout,  *)
(* the registry and the three counters stay as they are, and no other       *)
(* session's status or future changes.                                      *)
C5_LateResultDiscarded ==
    [][\A c \in Calls :
          (exc[c] = "InferenceTimeoutError" /\ future[c] = "running"
                                            /\ future'[c] # "running")
          => /\ sessions' = sessions
             /\ Counters' = Counters
             /\ \A d \in Calls \ {c} : /\ session'[d] = session[d]
                                       /\ future'[d] = future[d]]_vars

(* a call ended late, after its caller's timeout, while a later call of the *)
(* same thread is waiting                                                   *)
C5_Witness ==
    \E c, d \in Calls :
        /\ c # d
        /\ outcome[c] = "InferenceTimeoutError"
        /\ Finished(c)
        /\ caller[d] = caller[c]
        /\ pc[d] = "waiting"
        /\ session[d].future_ref = "future"

(* C6: add returns False exactly when the queue holds max_queue_size        *)
(* requests, and then leaves the queue as it is; otherwise it appends the   *)
(* request at the tail and returns True.                                    *)
C6_AddContract ==
    [][last_call'.op = "add" =>
          LET m == last_call'.model
          IN /\ last_call'.ret = FALSE <=> Len(queue[m]) >= max_queue_size
             /\ last_call'.ret = FALSE => queue'[m] = queue[m]
             /\ last_call'.ret = TRUE => queue'[m] = Append(queue[m], last_call'.arg)]_vars

(* a full queue refused a request *)
C6_Witness ==
    /\ last_call.op = "add"
    /\ last_call.ret = FALSE
    /\ Len(queue[last_call.model]) = max_queue_size

(* C7: get_batch on a queue of at least max_batch_size requests returns the *)
(* max_batch_size oldest ones, whatever the wait of the oldest.             *)
C7_FullBatchAtOnce ==
    [][\A m \in Models :
          (last_call'.op = "get_batch" /\ last_call'.model = m
                                       /\ Len(queue[m]) >= max_batch_size)
          => /\ last_call'.ret = SubSeq(queue[m], 1, max_batch_size)
             /\ queue'[m] = SubSeq(queue[m], max_batch_size + 1, Len(queue[m]))]_vars

(* a full batch was returned whose oldest request had not waited at all *)
C7_Witness ==
    /\ last_call.op = "get_batch"
    /\ Len(last_call.ret) = max_batch_size
    /\ requests[last_call.ret[1]].timestamp = now

(* C8: get_batch on a queue of fewer than max_batch_size requests returns   *)
(* nothing and removes nothing while the oldest has waited less than        *)
(* max_queue_delay_ms, and returns the whole queue once it has waited that  *)
(* long.                                                                    *)
C8_PartialBatchAfterDelay ==
    [][\A m \in Models :
          (last_call'.op = "get_batch" /\ last_call'.model = m
                                       /\ Len(queue[m]) < max_batch_size)
          => IF queue[m] = <<>>
                \/ now - requests[Head(queue[m])].timestamp < max_queue_delay_ms
             THEN last_call'.ret = <<>> /\ queue'[m] = queue[m]
             ELSE last_call'.ret = queue[m] /\ queue'[m] = <<>>]_vars

(* a partial batch was returned after its oldest request waited the delay *)
C8_Witness ==
    /\ last_call.op = "get_batch"
    /\ Len(last_call.ret) > 0
    /\ Len(last_call.ret) < max_batch_size
    /\ now - requests[last_call.ret[1]].timestamp >= max_queue_delay_ms

(* C9: for each model the batches returned so far, concatenated, followed   *)
(* by what is still queued, are the accepted requests in acceptance order.  *)
C9_FifoAcrossBatches ==
    \A m \in Models : accepted[m] = released[m] \o queue[m]

(* one model released three requests, in more than one batch *)
C9_Witness ==
    \E m \in Models : Len(released[m]) > max_batch_size

(* C10: a request resolved with a result holds the mask of its own image.   *)
C10_OwnSlice ==
    \A r \in Requests :
        requests[r].callback.state = "result"
        => requests[r].callback.value.mask_of = requests[r].image

(* two requests of one batch were both resolved with results *)
C10_Witness ==
    \E r, q \in Requests :
        /\ r # q
        /\ last_call.op = "get_batch"
        /\ r \in {last_call.ret[i] : i \in 1..Len(last_call.ret)}
        /\ q \in {last_call.ret[i] : i \in 1..Len(last_call.ret)}
        /\ requests[r].callback.state = "result"
        /\ requests[q].callback.state = "result"


(* C11: every request taken into a batch is resolved by that batch: once    *)
(* process_batch has run, no request it was given still has a pending       *)
(* result slot, whatever the state of the other requests of the batch.      *)
C11_BatchRequestsResolved ==
    \A m \in Models : \A i \in 1..Len(released[m]) :
        requests[released[m][i]].callback.state # "pending"


(* C12: while the loop of a model runs, the request at the head of its      *)
(* queue has been the oldest waiting request for at most max_queue_delay,   *)
(* however long the batches before it take.                                 *)
C12_OldestNotStarved ==
    \A m \in Models :
        (task[m] = "running" /\ queue[m] # <<>>)
            => now - oldest_since[m] <= max_queue_delay_ms


(* C13: a batch returned by get_batch has at most max_batch_size requests,  *)
(* all submitted for the model that owns the queue, and a queue never holds *)
(* more than max_queue_size requests (nor a request of another model).      *)
C13_BatchAndQueueBounds ==
    /\ \A m \in Models :
          /\ Len(queue[m]) <= max_queue_size
          /\ \A i \in 1..Len(queue[m]) : requests[queue[m][i]].model_name = m
          /\ \A i \in 1..Len(released[m]) : requests[released[m][i]].model_name = m
    /\ last_call.op = "get_batch" =>
          /\ Len(last_call.ret) <= max_batch_size
          /\ \A i \in 1..Len(last_call.ret) :
                requests[last_call.ret[i]].model_name = last_call.model

(* a full queue gave a full batch and still holds a request *)
C13_Witness ==
    /\ last_call.op = "get_batch"
    /\ Len(last_call.ret) = max_batch_size
    /\ queue[last_call.model] # <<>>
    /\ \E m \in Models : m # last_call.model /\ queue[m] # <<>>


(* what the claims about the GPU monitor read off a state *)
MemoryExceeds(threshold) ==
    memory_usage_percent # NoReading /\ memory_usage_percent > threshold
FailedAmongLast5 ==
    Cardinality({i \in 1..Len(batch_metrics) :
                    i > Len(batch_metrics) - 5 /\ ~batch_metrics[i]})

(* C14 as stated: should_reduce_batch_size(threshold) returns true exactly  *)
(* when the memory utilisation exceeds threshold or at least 2 of the last  *)
(* 5 recorded batches failed, the failures alone being enough.              *)
C14_ReduceIffPressureOrFailures ==
    reduce_call.called =>
        (reduce_call.ret <=> (MemoryExceeds(reduce_call.threshold)
                              \/ FailedAmongLast5 >= 2))

(* C14 amended: on a CUDA device should_reduce_batch_size(threshold)        *)
(* returns true exactly when the memory reading exceeds threshold or at     *)
(* least 2 of the last 5 recorded batches failed; without a CUDA device it  *)
(* returns false whatever was recorded.                                     *)
C14_ReduceOnCudaDevice ==
    reduce_call.called =>
        (reduce_call.ret <=> (is_cuda /\ (MemoryExceeds(reduce_call.threshold)
                                          \/ FailedAmongLast5 >= 2)))

(* failures alone made it answer true, an older failure being out of the    *)
(* window of five                                                           *)
C14_Witness ==
    /\ reduce_call.called /\ reduce_call.ret
    /\ is_cuda
    /\ ~MemoryExceeds(reduce_call.threshold)
    /\ Len(batch_metrics) > 5
    /\ ~batch_metrics[1]
    /\ FailedAmongLast5 = 2


(* C15: when should_reduce_batch_size reports pressure before a batch of    *)
(* n > 1 items is run, the batch handed to the executor has at most         *)
(* floor(n/2) items and at least 1; a batch of 1 item is run unchanged.     *)
C15_HalvedUnderPressure ==
    (pb.pc \in {"loop", "returned", "raised"} /\ pb.last.n > 0) =>
        /\ (pb.last.pressure /\ pb.last.n > 1) =>
              /\ Len(pb.last.handed) >= 1
              /\ 2 * Len(pb.last.handed) <= pb.last.n
        /\ pb.last.n = 1 => Len(pb.last.handed) = 1

(* a batch of three was run as one image under pressure *)
C15_Witness ==
    /\ pb.last.pressure
    /\ pb.last.n = 3
    /\ Len(pb.last.handed) = 1
    /\ pb.pc = "loop"

(* C16: predict_batch returns exactly one result per input image, in input  *)
(* order, for every batch size and also when memory pressure makes it       *)
(* shrink a batch.                                                          *)
C16_OneResultPerImage ==
    pb.pc = "returned" =>
        /\ Len(pb.all_results) = Len(pb.images)
        /\ \A i \in 1..Len(pb.all_results) : pb.all_results[i].image = pb.images[i]


(* the threshold a delivered mask was cut at, as <<sum, count>> *)
Delivered == {r \in Requests : requests[r].callback.state = "result"}
AppliedThreshold(r) == requests[r].callback.value.threshold

(* C17: the mask a request receives depends only on its own image and its  *)
(* own threshold: two requests that asked for the same threshold have their *)
(* masks cut at the same threshold, whatever the thresholds of the requests *)
(* that shared their batches.                                               *)
C17_OwnThresholdOnly ==
    \A r1, r2 \in Delivered :
        requests[r1].threshold = requests[r2].threshold =>
            AppliedThreshold(r1)[1] * AppliedThreshold(r2)[2]
                = AppliedThreshold(r2)[1] * AppliedThreshold(r1)[2]


(* C18: when shutdown(wait=True, timeout=T) returns, the session registry   *)
(* is empty.                                                                *)
C18_RegistryEmptyAtReturn ==
    [][(sd'.returned > sd.returned /\ sd'.wait) => DOMAIN sessions' = {}]_vars

C20_SecondShutdownNoOp ==
    [][(sd.returned >= 1 /\ sd' # sd) =>
          /\ \A c \in Calls : session'[c].status = session[c].status
          /\ executor_shutdown' = executor_shutdown
          /\ future' = future
          /\ work_queue' = work_queue
          /\ Counters' = Counters]_vars


(* C21: get_global_executor constructs at most one executor between two    *)
(* cleanups however many threads call it at once, all calls between two     *)
(* cleanups return the same instance, and calls separated by a cleanup      *)
(* return distinct instances, never None.                                   *)
C21_OneGlobalExecutor ==
    /\ constructed <= cleanups_run + 1
    /\ \A i, j \in 1..Len(handed_out) :
          (handed_out[i].after = handed_out[j].after) <=> (handed_out[i].instance = handed_out[j].instance)
    /\ \A i \in 1..Len(handed_out) :
          handed_out[i].instance # 0

(* two threads were handed the first instance, and after a cleanup a thread *)
(* was handed a second one                                                  *)
C21_Witness ==
    /\ Len(handed_out) = 3
    /\ handed_out[1].instance = 1 /\ handed_out[2].instance = 1
    /\ handed_out[1].thread # handed_out[2].thread
    /\ handed_out[3].instance = 2
    /\ 1 \in shut_down


(* C22: with monitoring enabled, a call whose sampled memory usage is over  *)
(* the configured limit raises InferenceResourceError; its model callable   *)
(* is never handed to the pool, and the session registry, the stream index  *)
(* and the three counters are what they were before the call.               *)
C22_MemoryLimitRejects ==
    [][\A c \in Calls :
         (/\ pc[c] = "new" /\ pc'[c] # "new"
          /\ enable_monitoring
          /\ preflight'[c].memory > memory_limit_bytes)
         => /\ pc'[c] = "done"
            /\ outcome'[c] = "InferenceResourceError"
            /\ future'[c] = "none"
            /\ work_queue' = work_queue
            /\ sessions' = sessions
            /\ stream_index' = stream_index
            /\ Counters' = Counters]_vars

C22_Witness ==
    \E c, d \in Calls :
        /\ preflight[c].memory > memory_limit_bytes
        /\ outcome[c] = "InferenceResourceError"
        /\ pc[d] = "waiting"
        /\ session[d].session_id \in DOMAIN sessions
        /\ future[c] = "none"

(* C23: with monitoring enabled on a device, a first utilisation sample     *)
(* above the emergency threshold runs the emergency cleanup once and        *)
(* samples again, and the call raises InferenceResourceError without its    *)
(* callable being submitted exactly when the second sample is above the     *)
(* safety threshold; a first sample at or below the emergency threshold     *)
(* runs no cleanup and the call goes on to its submit.                      *)
C23_PressureCheck ==
    [][\A c \in Calls :
         (/\ pc[c] = "new" /\ pc'[c] # "new"
          /\ preflight'[c].utilization # NotSampled)
         => LET utilization == preflight'[c].utilization
                recheck == preflight'[c].recheck
                refused == /\ pc'[c] = "done"
                           /\ outcome'[c] = "InferenceResourceError"
                           /\ future'[c] = "none"
                           /\ work_queue' = work_queue
                went_on == /\ pc'[c] = "waiting"
                           /\ future'[c] = "pending"
                           /\ work_queue' = Append(work_queue, c)
            IN  IF utilization > 95
                THEN /\ cleanups'[c].emergency = cleanups[c].emergency + 1
                     /\ recheck # NotSampled
                     /\ refused <=> recheck > 90
                     /\ went_on <=> recheck <= 90
                ELSE /\ cleanups'[c].emergency = cleanups[c].emergency
                     /\ recheck = NotSampled
                     /\ went_on]_vars

C23_Witness ==
    \E c, d \in Calls :
        /\ preflight[c].utilization > 95 /\ preflight[c].recheck = 95
        /\ outcome[c] = "InferenceResourceError"
        /\ cleanups[c].emergency = 1
        /\ preflight[d].utilization > 95 /\ preflight[d].recheck = 90
        /\ pc[d] = "waiting"
        /\ cleanups[d].emergency = 1


(* C24: when the wait of a call timed out, its session is marked TIMEOUT,   *)
(* and TIMEOUT is the status the session has when it leaves the registry.   *)
C24_TimeoutStatusAtRemoval ==
    [][\A c \in Calls :
         /\ (TimeoutDue(c) /\ pc'[c] = "exiting")
               => session'[c].status = "timeout"
         /\ (/\ exc[c] = "InferenceTimeoutError"
             /\ session[c].session_id \in DOMAIN sessions
             /\ session[c].session_id \notin DOMAIN sessions')
               => session'[c].status = "timeout"]_vars


(* C25: a request whose caller gave up (infer timed out and cancelled its   *)
(* result future) does not stop the batch loop of its model: the task of    *)
(* every model is still running, whatever requests were cancelled.          *)
C25_LoopSurvivesCancelled ==
    \A m \in Models :
        (\E i \in 1..Len(accepted[m]) :
            requests[accepted[m][i]].callback.state = "cancelled")
        => task[m] = "running"


(* every worker of the pool runs the callable of a call that had ended in a *)
(* timeout by the time t                                                    *)
WorkersHeldByTimedOut(t) ==
    /\ Cardinality(Executing) = max_workers
    /\ \A c \in Executing : /\ outcome[c] = "InferenceTimeoutError"
                            /\ releasedAt[c] < t

(* C26: timeouts are not fatal to the executor: a call made after earlier   *)
(* calls ended in a timeout is not made to time out by them, that is, it    *)
(* does not time out still waiting for a worker while every worker is held  *)
(* by the callable of a call that had timed out before it was made.         *)
C26_TimeoutsNotFatal ==
    [][\A d \in Calls :
         (/\ pc[d] = "waiting"
          /\ future[d] = "pending"
          /\ WorkersHeldByTimedOut(session[d].start_time))
         => ~(pc'[d] = "exiting" /\ exc'[d] = "InferenceTimeoutError")]_vars


InQueue(c) == \E i \in 1..Len(work_queue) : work_queue[i] = c

(* C27: at most max_workers model callables execute at any moment; a call   *)
(* that found no free worker waits in the queue of the pool, and a call     *)
(* that left its wait either had its callable run or ended in a timeout.    *)
C27_BoundedWorkers ==
    /\ Cardinality(Executing) <= max_workers
    /\ \A c \in Calls : future[c] = "pending" => InQueue(c) /\ pc[c] = "waiting"
    /\ \A c \in Calls :
         (pc[c] \in {"exiting", "done"} /\ future[c] # "none")
         => \/ future[c] = "running" \/ Finished(c)
            \/ future[c] = "cancelled" /\ exc[c] = "InferenceTimeoutError"

C27_Witness ==
    \E c, d \in Calls :
        /\ Cardinality(Executing) = max_workers
        /\ future[c] = "running"
        /\ future[d] = "pending" /\ InQueue(d) /\ pc[d] = "waiting"
        /\ now < deadline[d]

(* C28: a cancel of a job that is already marked cancelled is answered with *)
(* an 'already cancelled' error and leaves the job's record as it was; only *)
(* the first cancel of a job succeeds.                                      *)
C28_SecondCancelRejected ==
    [][\A job_id \in Jobs :
         (/\ job_id \in DOMAIN active_jobs
          /\ active_jobs[job_id].cancelled
          /\ Len(responses') = Len(responses) + 1
          /\ responses'[Len(responses')].job_id = job_id)
         => /\ ~responses'[Len(responses')].success
            /\ responses'[Len(responses')].detail = "already cancelled"
            /\ active_jobs' = active_jobs]_vars


(* C29: over calls, timeouts, late completions and shutdown, the status of  *)
(* a session goes from PENDING to RUNNING to at most one terminal status:   *)
(* a terminal status is never replaced, and a session that is RUNNING or    *)
(* terminal never becomes PENDING or RUNNING again.                         *)
C29_StatusStateMachine ==
    [][\A c \in Calls :
         /\ session[c].status \in Terminal
               => session'[c].status = session[c].status
         /\ session[c].status = "running"
               => session'[c].status \in {"running"} \cup Terminal
         /\ session'[c].status = "pending" => session[c].status = "pending"]_vars


(* C30: a session is RUNNING only once a worker has begun its model call:   *)
(* no session is RUNNING while its work item still waits in the queue of    *)
(* the pool for a free worker.                                              *)
C30_RunningOnlyOnWorker ==
    \A c \in Calls :
        session[c].status = "running" => ~(future[c] = "pending" /\ InQueue(c))


(* C31: a session is marked CANCELLED only if its model call never started  *)
(* executing: no step marks CANCELLED a session whose callable is running   *)
(* on a worker or has already ended.                                        *)
C31_CancelledOnlyIfNeverStarted ==
    [][\A c \in Calls :
         (session'[c].status = "cancelled" /\ session[c].status # "cancelled")
         => ~(future[c] = "running" \/ Finished(c))]_vars


(* C32: counter updates of concurrent execute_inference calls are not lost: *)
(* once every call made has returned its result, total_inferences has grown *)
(* by exactly the number of those calls.                                    *)
C32_NoLostCounterUpdate ==
    (\A t \in Threads : tpc[t] = "idle") => total_inferences = returned_ok

(* C33: with n streams the k-th call of get_next_cuda_stream, counted from  *)
(* 0 over all threads, returns stream k mod n, and the rotating index stays *)
(* within 0..n-1, also when threads call it concurrently.                   *)
C33_RoundRobin ==
    /\ stream_index \in 0..(cuda_streams - 1)
    /\ \A k \in 1..Len(given) : given[k].stream = (k - 1) % cuda_streams

C33_Witness ==
    /\ cuda_streams = 2
    /\ Len(given) = 3
    /\ given[1].thread # given[2].thread
    /\ given[1].stream # given[2].stream
    /\ given[3].stream = given[1].stream


(* the calls that have been made and have not yet returned *)
CallsInFlight == {t \in Threads : tpc[t] # "idle"}

(* C39: as long as no more than max_workers calls are in flight, no two     *)
(* model callables that execute at the same time are bound to the same      *)
(* CUDA stream.                                                             *)
C39_StreamsNotShared ==
    Cardinality(CallsInFlight) <= cuda_streams
    => \A t, u \in OnWorker : t # u => bound_stream[t] # bound_stream[u]


(* C34: every InferenceResourceError that execute_inference raises comes    *)
(* after a release of the device cache made by that call.                   *)
C34_CacheReleasedBeforeResourceError ==
    \A c \in Calls :
        outcome[c] = "InferenceResourceError" => cleanups[c].empty_cache >= 1


(* C35: the batch-processing history of the monitor is a bounded buffer:    *)
(* it never holds more than history_size records, and recording a batch     *)
(* into a full history evicts the oldest record.                            *)
C35_BoundedBatchHistory ==
    [][/\ Len(batch_metrics') <= history_size
       /\ (Len(batch_metrics) = history_size /\ batch_metrics' # batch_metrics)
             => \E success \in BOOLEAN :
                   batch_metrics' = Append(Tail(batch_metrics), success)]_vars


(* C36: shutdown(wait=True, timeout=T) returns after waiting at most about  *)
(* T, even if the callable of a call in flight never returns: a shutdown    *)
(* call is never still in progress, held up by a callable that is running,  *)
(* more than one time unit past T.                                          *)
C36_ShutdownReturnsInTime ==
    (sd.pc # "idle" /\ sd.wait /\ work_queue = <<>> /\ Executing # {})
    => now <= sd.since + shutdown_timeout + 1


(* the counters after one call counted a result, a timeout or a failure *)
CountedOnce(e) ==
    <<total_inferences + (IF e = "None" THEN 1 ELSE 0),
      timeout_count + (IF e = "InferenceTimeoutError" THEN 1 ELSE 0),
      failure_count + (IF e \notin {"None", "InferenceTimeoutError"} THEN 1 ELSE 0)>>

(* C37: a call that registers a session adds exactly one to exactly one of  *)
(* total_inferences (success), timeout_count (timeout) and failure_count    *)
(* (any other failure); a call rejected by its pre-flight checks adds       *)
(* nothing to any of them.                                                  *)
C37_OneCounterPerCall ==
    [][\A c \in Calls :
         /\ (pc[c] = "waiting" /\ pc'[c] = "exiting")
               => Counters' = CountedOnce(exc'[c])
         /\ (pc[c] = "new" /\ pc'[c] = "done")
               => /\ Counters' = Counters
                  /\ session'[c].status = "none"
         /\ (pc[c] = "new" /\ pc'[c] = "waiting") => Counters' = Counters
         /\ (pc[c] = "exiting" /\ pc'[c] = "done") => Counters' = Counters]_vars


(* C38: when the batched model call of predict_batch fails with GPU         *)
(* out-of-memory and the batch handed to it has more than one image,        *)
(* predict_batch retries the images of that batch singly and returns their  *)
(* results: the request does not fail.                                      *)
C38_OomFallsBackToSingleImages ==
    (pb.last.model_call = "out of memory" /\ Len(pb.last.handed) > 1)
    => /\ pb.pc # "raised"
       /\ \A i \in 1..Len(pb.last.handed) :
             \E k \in 1..Len(pb.all_results) :
                 /\ pb.all_results[k].image = pb.last.handed[i]
                 /\ pb.all_results[k].batch_size = 1

====
